---- MODULE Spec2Model ----
(***************************************************************************)
(* runtime-detector: detection of the host runtime (Browser, Bun, Deno,    *)
(* Nodejs, Unknown) from the ambient globals, the snapshot and flags       *)
(* computed at module initialization, and the synchronous / asynchronous   *)
(* guards built from them.                                                 *)
(*                                                                         *)
(* A JavaScript string is a sequence of chunks; the markers searched for   *)
(* by getBrowserVersion ("Firefox/", "Edg/", "Chrome/", "Safari/",         *)
(* "Version/") and the space are chunks of their own, so includes() and    *)
(* split() on chunks do what they do on characters.                        *)
(***************************************************************************)
EXTENDS Integers, Sequences, FiniteSets, TLC

VARIABLES globals, phase, currentEnv, flags, cond, observed, call,
          cbPromise, guardPromise, effects

vars == <<globals, phase, currentEnv, flags, cond, observed, call,
          cbPromise, guardPromise, effects>>

\* Callback invocations counted before the model stops issuing guard calls.
MaxEffects == 2

\* longest generated user-agent string, in pieces
MaxUALen == 4

----------------------------------------------------------------------------
(* JavaScript values *)

\* the value undefined where a string is expected
Undefined == <<"#undefined">>

EmptyStr == <<>>

Str(s) == <<s>>

\* x is truthy, for x a string or undefined
Truthy(x) == x # Undefined /\ x # EmptyStr

\* a || b
OrElse(a, b) == IF Truthy(a) THEN a ELSE b

Return(v) == [kind |-> "return", value |-> v]

Throw(e) == [kind |-> "throw", value |-> e]

----------------------------------------------------------------------------
(* The ambient globals *)

UAChrome ==
  <<"Mozilla/5.0", " ", "Chrome/", "91.0.4472.124", " ", "Safari/", "537.36">>

UAFirefox == <<"Mozilla/5.0", " ", "Gecko/20100101", " ", "Firefox/", "89.0">>

UAEdge ==
  <<"Mozilla/5.0", " ", "Chrome/", "91.0.4472.124", " ", "Safari/", "537.36",
    " ", "Edg/", "91.0.864.59">>

UASafari ==
  <<"Mozilla/5.0", " ", "Version/", "14.1.1", " ", "Safari/", "605.1.15">>

\* an in-app browser on iOS: a Safari token and no Version token
UAWebView == <<"Mozilla/5.0", " ", "Mobile/15E148", " ", "Safari/", "604.1">>

UAOther == <<"Unknown", " ", "Browser">>

UASamples == {UAChrome, UAFirefox, UAEdge, UASafari, UAWebView, UAOther, EmptyStr}

\* a global is absent, present holding undefined, or (Bun, Deno) present
\* holding null, or an object
WindowVals == {"absent", "undefined", "object"}

NavigatorVals ==
  {[st |-> s, userAgent |-> Undefined] : s \in {"absent", "undefined"}}
  \cup {[st |-> "object", userAgent |-> u] : u \in UASamples \cup {Undefined}}

ProcessVals ==
  {[st |-> s, hasVersions |-> FALSE, node |-> Undefined, version |-> Undefined] :
     s \in {"absent", "undefined"}}
  \cup {[st |-> "object", hasVersions |-> FALSE, node |-> Undefined, version |-> v] :
          v \in {Undefined, EmptyStr, Str("v16.0.0")}}
  \cup {[st |-> "object", hasVersions |-> TRUE, node |-> n, version |-> v] :
          n \in {Undefined, EmptyStr, Str("16.0.0")},
          v \in {Undefined, EmptyStr, Str("v16.0.0")}}

BunVals ==
  {[st |-> s, version |-> Undefined] : s \in {"absent", "undefined", "null"}}
  \cup {[st |-> "object", version |-> v] : v \in {Undefined, EmptyStr, Str("1.1.0")}}

DenoVals ==
  {[st |-> s, hasVersion |-> FALSE, deno |-> Undefined] :
     s \in {"absent", "undefined", "null"}}
  \cup {[st |-> "object", hasVersion |-> FALSE, deno |-> Undefined]}
  \cup {[st |-> "object", hasVersion |-> TRUE, deno |-> d] :
          d \in {Undefined, EmptyStr, Str("2.1.1")}}

AmbientStates ==
  [window : WindowVals, document : WindowVals, navigator : NavigatorVals,
   process : ProcessVals, Bun : BunVals, Deno : DenoVals]

\* typeof x !== "undefined"
TypeofDefined(st) == st \notin {"absent", "undefined"}

\* "X" in globalThis
InGlobalThis(st) == st # "absent"

\* x?.f yields undefined when x is undefined or null
Nullish(st) == st \in {"absent", "undefined", "null"}

----------------------------------------------------------------------------
(* String.prototype.includes and String.prototype.split on chunks *)

Includes(s, m) == \E i \in DOMAIN s : s[i] = m

RECURSIVE SplitFrom(_, _, _, _)
\* the pieces of s from index i on, cur being the piece under construction
SplitFrom(s, sep, i, cur) ==
  IF i > Len(s) THEN <<cur>>
  ELSE IF s[i] = sep THEN <<cur>> \o SplitFrom(s, sep, i + 1, <<>>)
  ELSE SplitFrom(s, sep, i + 1, Append(cur, s[i]))

Split(s, sep) == SplitFrom(s, sep, 1, <<>>)

\* userAgent.split(marker)[1].split(" ")[0]; [1] is undefined when the marker
\* does not occur and .split on undefined is a TypeError
VersionAfter(userAgent, marker) ==
  LET parts == Split(userAgent, marker)
  IN  IF Len(parts) < 2 THEN Throw("TypeError")
      ELSE Return(Split(parts[2], " ")[1])

BrowserInfoOf(name, userAgent, marker) ==
  LET v == VersionAfter(userAgent, marker)
  IN  IF v.kind = "throw" THEN v
      ELSE Return([name |-> name, version |-> v.value])

\* the parser with the Chrome marker looked for ahead of the Edge marker
getBrowserVersionChromeFirst(g) ==
  IF g.navigator.st = "absent" THEN Throw("ReferenceError")
  ELSE IF g.navigator.st = "undefined" THEN Throw("TypeError")
  ELSE LET userAgent == OrElse(g.navigator.userAgent, EmptyStr)
       IN  IF Includes(userAgent, "Firefox/")
             THEN BrowserInfoOf("Firefox", userAgent, "Firefox/")
           ELSE IF Includes(userAgent, "Chrome/")
             THEN BrowserInfoOf("Chrome", userAgent, "Chrome/")
           ELSE IF Includes(userAgent, "Edg/")
             THEN BrowserInfoOf("Edge", userAgent, "Edg/")
           ELSE IF Includes(userAgent, "Safari/")
             THEN BrowserInfoOf("Safari", userAgent, "Version/")
           ELSE Return([name |-> "Unknown", version |-> Str("unknown")])

getBrowserVersion(g) ==
  IF g.navigator.st = "absent" THEN Throw("ReferenceError")
  ELSE IF g.navigator.st = "undefined" THEN Throw("TypeError")
  ELSE LET userAgent == OrElse(g.navigator.userAgent, EmptyStr)
       IN  IF Includes(userAgent, "Firefox/")
             THEN BrowserInfoOf("Firefox", userAgent, "Firefox/")
           ELSE IF Includes(userAgent, "Edg/")
             THEN BrowserInfoOf("Edge", userAgent, "Edg/")
           ELSE IF Includes(userAgent, "Chrome/")
             THEN BrowserInfoOf("Chrome", userAgent, "Chrome/")
           ELSE IF Includes(userAgent, "Safari/")
             THEN BrowserInfoOf("Safari", userAgent, "Version/")
           ELSE Return([name |-> "Unknown", version |-> Str("unknown")])

----------------------------------------------------------------------------
(* The registry of runtime descriptors *)

\* the registry with Bun listed ahead of Browser
environmentsBunFirst == <<"Bun", "Browser", "Deno", "Nodejs">>

\* the registry with Deno listed ahead of Bun
environmentsDenoBeforeBun == <<"Browser", "Deno", "Bun", "Nodejs">>

\* Object.values(environments): the descriptors in insertion order
environments == <<"Browser", "Bun", "Deno", "Nodejs">>

\* typeof Bun !== "undefined" in place of the property test
BunDetectTypeof(g) == TypeofDefined(g.Bun.st)

BrowserDetect(g) == TypeofDefined(g.window) /\ TypeofDefined(g.document)

BunDetect(g) == InGlobalThis(g.Bun.st)

\* typeof Deno !== "undefined" in place of the property test
DenoDetectTypeof(g) == TypeofDefined(g.Deno.st)

DenoDetect(g) == InGlobalThis(g.Deno.st)

\* process.versions?.node
VersionsNode(g) == IF g.process.hasVersions THEN g.process.node ELSE Undefined

NodejsDetect(g) ==
  /\ TypeofDefined(g.process.st)
  /\ Truthy(VersionsNode(g))
  /\ ~InGlobalThis(g.Bun.st)
  /\ ~InGlobalThis(g.Deno.st)

detect(name, g) ==
  CASE name = "Browser" -> BrowserDetect(g)
    [] name = "Bun" -> BunDetect(g)
    [] name = "Deno" -> DenoDetect(g)
    [] name = "Nodejs" -> NodejsDetect(g)

\* (globalThis as any).Bun?.version || "unknown"
BunGetVersion(g) ==
  Return(OrElse(IF Nullish(g.Bun.st) THEN Undefined ELSE g.Bun.version,
                Str("unknown")))

\* (globalThis as any).Deno?.version?.deno || "unknown"
DenoGetVersion(g) ==
  Return(OrElse(IF Nullish(g.Deno.st) \/ ~g.Deno.hasVersion
                  THEN Undefined ELSE g.Deno.deno,
                Str("unknown")))

\* the version taken from process.versions.node
NodejsGetVersionFromVersions(g) ==
  IF g.process.st = "absent" THEN Throw("ReferenceError")
  ELSE Return(OrElse(VersionsNode(g), Str("unknown")))

\* process?.version || "unknown"; the bare identifier process is a
\* ReferenceError when the global is absent
NodejsGetVersion(g) ==
  IF g.process.st = "absent" THEN Throw("ReferenceError")
  ELSE Return(OrElse(IF Nullish(g.process.st) THEN Undefined
                     ELSE g.process.version,
                     Str("unknown")))

\* getBrowserVersion().version
BrowserGetVersion(g) ==
  LET b == getBrowserVersion(g)
  IN  IF b.kind = "throw" THEN b ELSE Return(b.value.version)

\* getBrowserVersion().name
getBrowserName(g) ==
  LET b == getBrowserVersion(g)
  IN  IF b.kind = "throw" THEN b ELSE Return(b.value.name)

getVersion(name, g) ==
  CASE name = "Browser" -> BrowserGetVersion(g)
    [] name = "Bun" -> BunGetVersion(g)
    [] name = "Deno" -> DenoGetVersion(g)
    [] name = "Nodejs" -> NodejsGetVersion(g)

----------------------------------------------------------------------------
(* The detector *)

\* browserName: env.getBrowserName?.() written for every runtime
SnapshotOfAlwaysBrowserName(name, g) ==
  LET v == getVersion(name, g)
  IN  IF v.kind = "throw" THEN v
      ELSE IF name = "Browser"
        THEN LET b == getBrowserName(g)
             IN  IF b.kind = "throw" THEN b
                 ELSE Return([name |-> name, version |-> v.value,
                              browserName |-> b.value])
      ELSE Return([name |-> name, version |-> v.value,
                   browserName |-> "undefined"])

\* the snapshot built for the descriptor that matched
SnapshotOf(name, g) ==
  LET v == getVersion(name, g)
  IN  IF v.kind = "throw" THEN v
      ELSE IF name = "Browser"
        THEN LET b == getBrowserName(g)
             IN  IF b.kind = "throw" THEN b
                 ELSE Return([name |-> name, version |-> v.value,
                              browserName |-> b.value])
      ELSE Return([name |-> name, version |-> v.value])

RECURSIVE DetectFrom(_, _)
\* the loop of getCurrentEnvironment from the i-th descriptor on
DetectFrom(g, i) ==
  IF i > Len(environments)
    THEN Return([name |-> "Unknown", version |-> Str("unknown")])
  ELSE IF detect(environments[i], g) THEN SnapshotOf(environments[i], g)
  ELSE DetectFrom(g, i + 1)

\* detection memoized after the first successful evaluation of the module
getCurrentEnvironmentCached(g) ==
  IF phase = "loaded" THEN Return(currentEnv) ELSE DetectFrom(g, 1)

getCurrentEnvironment(g) == DetectFrom(g, 1)

isBrowser(env) == env.name = "Browser"

\* Node.js and the runtimes that expose its globals all count as Nodejs
isNodejsCompatible(env) == env.name \in {"Nodejs", "Bun", "Deno"}

isNodejs(env) == env.name = "Nodejs"

isBun(env) == env.name = "Bun"

isDeno(env) == env.name = "Deno"

isUnknown(env) == env.name = "Unknown"

\* the negation flags false in the Unknown environment, as the onNot* guards
FlagsOfGated(env) ==
  [isBrowser |-> isBrowser(env), isNodejs |-> isNodejs(env),
   isBun |-> isBun(env), isDeno |-> isDeno(env),
   isNotBrowser |-> ~isBrowser(env) /\ ~isUnknown(env),
   isNotNodejs |-> ~isNodejs(env) /\ ~isUnknown(env),
   isNotBun |-> ~isBun(env) /\ ~isUnknown(env),
   isNotDeno |-> ~isDeno(env) /\ ~isUnknown(env),
   isUnknown |-> isUnknown(env), isNotUnknown |-> ~isUnknown(env)]

\* the exported flags, each computed once from the snapshot
FlagsOf(env) ==
  [isBrowser |-> isBrowser(env), isNodejs |-> isNodejs(env),
   isBun |-> isBun(env), isDeno |-> isDeno(env),
   isNotBrowser |-> ~isBrowser(env), isNotNodejs |-> ~isNodejs(env),
   isNotBun |-> ~isBun(env), isNotDeno |-> ~isDeno(env),
   isUnknown |-> isUnknown(env), isNotUnknown |-> ~isUnknown(env)]

----------------------------------------------------------------------------
(* Values handed to and returned by callbacks *)

JSUndefined == [t |-> "undefined", v |-> ""]

JSNull == [t |-> "null", v |-> ""]

JSString(s) == [t |-> "string", v |-> s]

JSZero == [t |-> "number", v |-> "0"]

JSFalse == [t |-> "boolean", v |-> "false"]

\* the Promise made by the callback, and the one made by an async guard
JSCallbackPromise == [t |-> "promise", v |-> "callback"]

JSGuardPromise == [t |-> "promise", v |-> "guard"]

\* an object with a then method that is not a Promise instance
JSThenable == [t |-> "thenable", v |-> ""]

JSError(msg) == [t |-> "error", v |-> msg]

PlainValues ==
  {JSUndefined, JSNull, JSString("x"), JSString(""), JSZero, JSFalse}

\* values a pending callback promise may later fulfil with
SettleValues == {JSString("x"), JSNull}

InstanceofPromise(x) == x.t = "promise"

\* x || undefined
NullishCoalesceFalsy(x) ==
  IF x \in {JSUndefined, JSNull, JSZero, JSFalse, JSString("")}
    THEN JSUndefined ELSE x

\* x ?? undefined
NullishCoalesce(x) == IF x.t \in {"undefined", "null"} THEN JSUndefined ELSE x

NoPromise == [state |-> "none", value |-> JSUndefined, follows |-> FALSE]

PendingPromise == [state |-> "pending", value |-> JSUndefined, follows |-> FALSE]

Fulfilled(x) == [state |-> "fulfilled", value |-> x, follows |-> FALSE]

Rejected(e) == [state |-> "rejected", value |-> e, follows |-> FALSE]

\* a promise resolved with the callback's promise: pending until it adopts
\* that promise's settlement
Following == [state |-> "pending", value |-> JSUndefined, follows |-> TRUE]

Callbacks ==
  {[body |-> "returns", arg |-> x] : x \in PlainValues}
  \cup {[body |-> "asyncReturns", arg |-> x] : x \in SettleValues}
  \cup {[body |-> b, arg |-> JSUndefined] :
          b \in {"returnsEnvName", "asyncThrows", "pending", "thenable", "throws"}}

\* callback(env): what the call yields and the state of the promise it made
Invoke(callback, env) ==
  CASE callback.body = "returns" ->
         [outcome |-> Return(callback.arg), promise |-> NoPromise]
    [] callback.body = "returnsEnvName" ->
         [outcome |-> Return(JSString(env.name)), promise |-> NoPromise]
    [] callback.body = "asyncReturns" ->
         [outcome |-> Return(JSCallbackPromise), promise |-> Fulfilled(callback.arg)]
    [] callback.body = "asyncThrows" ->
         [outcome |-> Return(JSCallbackPromise),
          promise |-> Rejected(JSError("callback failed"))]
    [] callback.body = "pending" ->
         [outcome |-> Return(JSCallbackPromise), promise |-> PendingPromise]
    [] callback.body = "thenable" ->
         [outcome |-> Return(JSThenable), promise |-> NoPromise]
    [] callback.body = "throws" ->
         [outcome |-> Throw(JSError("callback failed")), promise |-> NoPromise]

----------------------------------------------------------------------------
(* The guards *)

SyncGuards ==
  {"inBrowser", "inNodejs", "inBun", "inDeno",
   "onNotBrowser", "onNotNodejs", "onNotBun", "onNotDeno", "onUnknown",
   "onBrowser", "onNodejs", "onBun", "onDeno"}

AsyncGuards ==
  {"inBrowserAsync", "inNodejsAsync", "inBunAsync", "inDenoAsync",
   "onNotBrowserAsync", "onNotNodejsAsync", "onNotBunAsync", "onNotDenoAsync",
   "onUnknownAsync",
   "onBrowserAsync", "onNodejsAsync", "onBunAsync", "onDenoAsync"}

Guards == SyncGuards \cup AsyncGuards

\* export const onBrowser = inBrowser; ...
AliasOf(gd) ==
  CASE gd = "onBrowser" -> "inBrowser"
    [] gd = "onNodejs" -> "inNodejs"
    [] gd = "onBun" -> "inBun"
    [] gd = "onDeno" -> "inDeno"
    [] gd = "onBrowserAsync" -> "inBrowserAsync"
    [] gd = "onNodejsAsync" -> "inNodejsAsync"
    [] gd = "onBunAsync" -> "inBunAsync"
    [] gd = "onDenoAsync" -> "inDenoAsync"
    [] OTHER -> gd

\* the negative guards built from the plain complement flags
ConditionOfPlainComplement(gd, f, env) ==
  LET a == AliasOf(gd)
  IN  CASE a \in {"inBrowser", "inBrowserAsync"} -> f.isBrowser
        [] a \in {"inNodejs", "inNodejsAsync"} -> f.isNodejs
        [] a \in {"inBun", "inBunAsync"} -> f.isBun
        [] a \in {"inDeno", "inDenoAsync"} -> f.isDeno
        [] a \in {"onNotBrowser", "onNotBrowserAsync"} -> f.isNotBrowser
        [] a \in {"onNotNodejs", "onNotNodejsAsync"} -> f.isNotNodejs
        [] a \in {"onNotBun", "onNotBunAsync"} -> f.isNotBun
        [] a \in {"onNotDeno", "onNotDenoAsync"} -> f.isNotDeno
        [] a \in {"onUnknown", "onUnknownAsync"} -> env.name = "Unknown"

\* the condition each guard's factory is called with at module initialization
ConditionOf(gd, f, env) ==
  LET a == AliasOf(gd)
  IN  CASE a \in {"inBrowser", "inBrowserAsync"} -> f.isBrowser
        [] a \in {"inNodejs", "inNodejsAsync"} -> f.isNodejs
        [] a \in {"inBun", "inBunAsync"} -> f.isBun
        [] a \in {"inDeno", "inDenoAsync"} -> f.isDeno
        [] a \in {"onNotBrowser", "onNotBrowserAsync"} ->
             ~f.isBrowser /\ env.name # "Unknown"
        [] a \in {"onNotNodejs", "onNotNodejsAsync"} ->
             ~f.isNodejs /\ env.name # "Unknown"
        [] a \in {"onNotBun", "onNotBunAsync"} ->
             ~f.isBun /\ env.name # "Unknown"
        [] a \in {"onNotDeno", "onNotDenoAsync"} ->
             ~f.isDeno /\ env.name # "Unknown"
        [] a \in {"onUnknown", "onUnknownAsync"} -> env.name = "Unknown"

\* the callback run before the condition is looked at
getFunctionExecuteInEnvironmentEager(condition, callback, env) ==
  LET r == Invoke(callback, env)
  IN  [invoked |-> TRUE,
       outcome |->
         IF ~condition THEN Return(JSUndefined)
         ELSE IF r.outcome.kind = "throw" THEN r.outcome
         ELSE IF InstanceofPromise(r.outcome.value)
           THEN Throw(JSError("callback must be a sync function"))
         ELSE Return(NullishCoalesce(r.outcome.value)),
       cbPromise |-> r.promise,
       guardPromise |-> NoPromise]

\* the callback's result handed back without the instanceof Promise test
getFunctionExecuteInEnvironmentUnchecked(condition, callback, env) ==
  IF condition
    THEN LET r == Invoke(callback, env)
         IN  [invoked |-> TRUE,
              outcome |->
                IF r.outcome.kind = "throw" THEN r.outcome
                ELSE Return(NullishCoalesce(r.outcome.value)),
              cbPromise |-> r.promise,
              guardPromise |-> NoPromise]
  ELSE [invoked |-> FALSE, outcome |-> Return(JSUndefined),
        cbPromise |-> NoPromise, guardPromise |-> NoPromise]

\* a guard that reports a Promise-returning callback the first time only
getFunctionExecuteInEnvironmentReportsOnce(condition, callback, env) ==
  IF condition
    THEN LET r == Invoke(callback, env)
         IN  [invoked |-> TRUE,
              outcome |->
                IF r.outcome.kind = "throw" THEN r.outcome
                ELSE IF InstanceofPromise(r.outcome.value) /\ effects = 0
                  THEN Throw(JSError("callback must be a sync function"))
                ELSE Return(NullishCoalesce(r.outcome.value)),
              cbPromise |-> r.promise,
              guardPromise |-> NoPromise]
  ELSE [invoked |-> FALSE, outcome |-> Return(JSUndefined),
        cbPromise |-> NoPromise, guardPromise |-> NoPromise]

\* a guard that refuses an async callback before running it
getFunctionExecuteInEnvironmentChecksFirst(condition, callback, env) ==
  IF condition /\ callback.body \in {"asyncReturns", "asyncThrows", "pending"}
    THEN [invoked |-> FALSE,
          outcome |-> Throw(JSError("callback must be a sync function")),
          cbPromise |-> NoPromise, guardPromise |-> NoPromise]
  ELSE IF condition
    THEN LET r == Invoke(callback, env)
         IN  [invoked |-> TRUE,
              outcome |->
                IF r.outcome.kind = "throw" THEN r.outcome
                ELSE Return(NullishCoalesce(r.outcome.value)),
              cbPromise |-> r.promise,
              guardPromise |-> NoPromise]
  ELSE [invoked |-> FALSE, outcome |-> Return(JSUndefined),
        cbPromise |-> NoPromise, guardPromise |-> NoPromise]

\* getFunctionExecuteInEnvironment(condition)(callback)
getFunctionExecuteInEnvironment(condition, callback, env) ==
  IF condition
    THEN LET r == Invoke(callback, env)
         IN  [invoked |-> TRUE,
              outcome |->
                IF r.outcome.kind = "throw" THEN r.outcome
                ELSE IF InstanceofPromise(r.outcome.value)
                  THEN Throw(JSError("callback must be a sync function"))
                ELSE Return(NullishCoalesce(r.outcome.value)),
              cbPromise |-> r.promise,
              guardPromise |-> NoPromise]
  ELSE [invoked |-> FALSE, outcome |-> Return(JSUndefined),
        cbPromise |-> NoPromise, guardPromise |-> NoPromise]

\* the callback's promise checked and then dropped instead of returned
getFunctionExecuteInEnvironmentAsyncDropsResult(condition, callback, env) ==
  IF condition
    THEN LET r == Invoke(callback, env)
         IN  [invoked |-> TRUE,
              outcome |-> Return(JSGuardPromise),
              cbPromise |-> r.promise,
              guardPromise |->
                IF r.outcome.kind = "throw" THEN Rejected(r.outcome.value)
                ELSE IF ~InstanceofPromise(r.outcome.value)
                  THEN Rejected(JSError("callback must return a Promise"))
                ELSE Fulfilled(JSUndefined)]
  ELSE [invoked |-> FALSE, outcome |-> Return(JSGuardPromise),
        cbPromise |-> NoPromise, guardPromise |-> Fulfilled(JSUndefined)]

\* the guard written as a plain function: the contract error is thrown to
\* the caller
getFunctionExecuteInEnvironmentAsyncNotAsync(condition, callback, env) ==
  IF condition
    THEN LET r == Invoke(callback, env)
         IN  IF r.outcome.kind = "throw"
               THEN [invoked |-> TRUE, outcome |-> r.outcome,
                     cbPromise |-> r.promise, guardPromise |-> NoPromise]
             ELSE IF ~InstanceofPromise(r.outcome.value)
               THEN [invoked |-> TRUE,
                     outcome |-> Throw(JSError("callback must return a Promise")),
                     cbPromise |-> r.promise, guardPromise |-> NoPromise]
             ELSE [invoked |-> TRUE, outcome |-> Return(JSGuardPromise),
                   cbPromise |-> r.promise, guardPromise |-> Following]
  ELSE [invoked |-> FALSE, outcome |-> Return(JSGuardPromise),
        cbPromise |-> NoPromise, guardPromise |-> Fulfilled(JSUndefined)]

\* an async guard that queues its callback behind the promise of the guard
\* call before it while that promise is pending
getFunctionExecuteInEnvironmentAsyncQueued(condition, callback, env) ==
  IF condition /\ guardPromise.state # "pending"
    THEN LET r == Invoke(callback, env)
         IN  [invoked |-> TRUE,
              outcome |-> Return(JSGuardPromise),
              cbPromise |-> r.promise,
              guardPromise |->
                IF r.outcome.kind = "throw" THEN Rejected(r.outcome.value)
                ELSE IF ~InstanceofPromise(r.outcome.value)
                  THEN Rejected(JSError("callback must return a Promise"))
                ELSE Following]
  ELSE IF condition
    THEN [invoked |-> FALSE, outcome |-> Return(JSGuardPromise),
          cbPromise |-> cbPromise, guardPromise |-> guardPromise]
  ELSE [invoked |-> FALSE, outcome |-> Return(JSGuardPromise),
        cbPromise |-> NoPromise, guardPromise |-> Fulfilled(JSUndefined)]

\* getFunctionExecuteInEnvironmentAsync(condition)(callback): an async
\* function, so the call always returns a promise and a throw in its body
\* rejects that promise
getFunctionExecuteInEnvironmentAsync(condition, callback, env) ==
  IF condition
    THEN LET r == Invoke(callback, env)
         IN  [invoked |-> TRUE,
              outcome |-> Return(JSGuardPromise),
              cbPromise |-> r.promise,
              guardPromise |->
                IF r.outcome.kind = "throw" THEN Rejected(r.outcome.value)
                ELSE IF ~InstanceofPromise(r.outcome.value)
                  THEN Rejected(JSError("callback must return a Promise"))
                ELSE Following]
  ELSE [invoked |-> FALSE, outcome |-> Return(JSGuardPromise),
        cbPromise |-> NoPromise, guardPromise |-> Fulfilled(JSUndefined)]

----------------------------------------------------------------------------
(* Ambient states set up the way the test suite does *)

resetGlobalThis ==
  [window |-> "absent", document |-> "absent",
   navigator |-> [st |-> "absent", userAgent |-> Undefined],
   process |-> [st |-> "absent", hasVersions |-> FALSE, node |-> Undefined,
                version |-> Undefined],
   Bun |-> [st |-> "absent", version |-> Undefined],
   Deno |-> [st |-> "absent", hasVersion |-> FALSE, deno |-> Undefined]]

simulateBrowser(g, userAgent) ==
  [g EXCEPT !.window = "object", !.document = "object",
            !.navigator = [st |-> "object", userAgent |-> userAgent]]

simulateNodejs(g) ==
  [g EXCEPT !.process = [st |-> "object", hasVersions |-> TRUE,
                         node |-> Str("16.0.0"), version |-> Str("v16.0.0")]]

simulateBun(g) == [g EXCEPT !.Bun = [st |-> "object", version |-> Str("1.1.0")]]

simulateDeno(g) ==
  [g EXCEPT !.Deno = [st |-> "object", hasVersion |-> TRUE, deno |-> Str("2.1.1")]]

\* window and document set, navigator left as the host has it (absent)
WindowAndDocumentOnly ==
  [resetGlobalThis EXCEPT !.window = "object", !.document = "object"]

Scenarios ==
  {resetGlobalThis,
   simulateBrowser(resetGlobalThis, UAChrome),
   simulateBrowser(resetGlobalThis, UAEdge),
   simulateNodejs(resetGlobalThis),
   simulateBun(resetGlobalThis),
   simulateDeno(resetGlobalThis),
   simulateNodejs(simulateBun(resetGlobalThis)),
   simulateNodejs(simulateDeno(resetGlobalThis)),
   simulateDeno(simulateBun(resetGlobalThis)),
   WindowAndDocumentOnly}

----------------------------------------------------------------------------
(* State before the module is evaluated and before any call *)

NoEnv == [name |-> "#none", version |-> Undefined]

NoCall ==
  [guard |-> "none", callback |-> [body |-> "none", arg |-> JSUndefined],
   invoked |-> FALSE, outcome |-> Return(JSUndefined), effectsBefore |-> 0,
   passed |-> NoEnv, unawaited |-> FALSE]

NotObserved == [called |-> FALSE, globals |-> resetGlobalThis,
                outcome |-> Return(NoEnv)]

InitRest ==
  /\ phase = "boot"
  /\ currentEnv = NoEnv
  /\ flags = FlagsOf(NoEnv)
  /\ cond = [gd \in Guards |-> FALSE]
  /\ observed = NotObserved
  /\ call = NoCall
  /\ cbPromise = NoPromise
  /\ guardPromise = NoPromise
  /\ effects = 0

Init == globals \in Scenarios /\ InitRest

InitDetect == globals \in AmbientStates /\ InitRest

----------------------------------------------------------------------------
(* Operations *)

\* evaluation of the module: currentEnv, the flags and the guards are built
\* once; an exception from getCurrentEnvironment() aborts the evaluation
ModuleInit ==
  /\ phase = "boot"
  /\ LET r == getCurrentEnvironment(globals)
     IN  IF r.kind = "throw"
           THEN /\ phase' = "failed"
                /\ UNCHANGED <<currentEnv, flags, cond>>
         ELSE /\ phase' = "loaded"
              /\ currentEnv' = r.value
              /\ flags' = FlagsOf(r.value)
              /\ cond' = [gd \in Guards |->
                            ConditionOf(gd, FlagsOf(r.value), r.value)]
  /\ UNCHANGED <<globals, observed, call, cbPromise, guardPromise, effects>>

\* the host or a test changes the ambient globals
SetGlobals(g) ==
  /\ g # globals
  /\ globals' = g
  /\ UNCHANGED <<phase, currentEnv, flags, cond, observed, call, cbPromise,
                 guardPromise, effects>>

\* a direct call of getCurrentEnvironment()
CallGetCurrentEnvironment ==
  /\ observed' = [called |-> TRUE, globals |-> globals,
                  outcome |-> getCurrentEnvironment(globals)]
  /\ call' = NoCall
  /\ cbPromise' = NoPromise
  /\ guardPromise' = NoPromise
  /\ UNCHANGED <<globals, phase, currentEnv, flags, cond, effects>>

\* the snapshot re-detected from the ambient globals at the time of the call
CallbackArgumentRedetected ==
  LET r == getCurrentEnvironment(globals)
  IN  IF r.kind = "return" THEN r.value ELSE currentEnv

\* callback(): the callback run without an argument
CallbackArgumentOmitted == NoEnv

\* callback(currentEnv): the module-level snapshot is the argument
CallbackArgument == currentEnv

\* the condition re-evaluated from the ambient globals at the time of the call
GuardConditionReobserved(gd) ==
  LET r == getCurrentEnvironment(globals)
  IN  IF r.kind = "return" THEN ConditionOf(gd, FlagsOf(r.value), r.value)
      ELSE cond[gd]

\* the condition captured by the factory's closure when the guard was built
GuardCondition(gd) == cond[gd]

\* a guard call and what it leaves behind; passed is the argument the
\* callback ran with, unawaited tells that the promise of the preceding
\* guard call was still pending when this call was made
GuardCall(gd, callback, r, env) ==
  /\ call' = [guard |-> gd, callback |-> callback, invoked |-> r.invoked,
              outcome |-> r.outcome, effectsBefore |-> effects,
              passed |-> IF r.invoked THEN env ELSE NoEnv,
              unawaited |-> guardPromise.state = "pending"]
  /\ cbPromise' = r.cbPromise
  /\ guardPromise' = r.guardPromise
  /\ effects' = IF r.invoked THEN effects + 1 ELSE effects
  /\ observed' = NotObserved
  /\ UNCHANGED <<globals, phase, currentEnv, flags, cond>>

\* the deprecated aliases kept as functions of their own, run-if-true
\* wrappers without the check of the callback's result
CallSyncGuardSeparateAliases(gd, callback) ==
  /\ phase = "loaded"
  /\ effects < MaxEffects
  /\ GuardCall(gd, callback,
               IF AliasOf(gd) # gd
                 THEN getFunctionExecuteInEnvironmentUnchecked(
                        GuardCondition(gd), callback, CallbackArgument)
               ELSE getFunctionExecuteInEnvironment(
                      GuardCondition(gd), callback, CallbackArgument),
               CallbackArgument)

CallSyncGuard(gd, callback) ==
  /\ phase = "loaded"
  /\ effects < MaxEffects
  /\ GuardCall(gd, callback,
               getFunctionExecuteInEnvironment(GuardCondition(gd), callback,
                                               CallbackArgument),
               CallbackArgument)

CallAsyncGuard(gd, callback) ==
  /\ phase = "loaded"
  /\ effects < MaxEffects
  /\ GuardCall(gd, callback,
               getFunctionExecuteInEnvironmentAsync(GuardCondition(gd), callback,
                                                    CallbackArgument),
               CallbackArgument)

\* the callback's pending promise settles
SettleCallbackPromise(p) ==
  /\ cbPromise.state = "pending"
  /\ cbPromise' = p
  /\ UNCHANGED <<globals, phase, currentEnv, flags, cond, observed, call,
                 guardPromise, effects>>

\* the settlement taken over with a rejection turned into undefined
AdoptSettlementSwallowsRejection ==
  /\ guardPromise.state = "pending"
  /\ guardPromise.follows
  /\ cbPromise.state \in {"fulfilled", "rejected"}
  /\ guardPromise' = IF cbPromise.state = "rejected" THEN Fulfilled(JSUndefined)
                     ELSE [cbPromise EXCEPT !.follows = FALSE]
  /\ UNCHANGED <<globals, phase, currentEnv, flags, cond, observed, call,
                 cbPromise, effects>>

\* return (await result) ?? undefined: the settled value normalised
AdoptSettlementNormalisesNull ==
  /\ guardPromise.state = "pending"
  /\ guardPromise.follows
  /\ cbPromise.state \in {"fulfilled", "rejected"}
  /\ guardPromise' = IF cbPromise = Fulfilled(JSNull) THEN Fulfilled(JSUndefined)
                     ELSE [cbPromise EXCEPT !.follows = FALSE]
  /\ UNCHANGED <<globals, phase, currentEnv, flags, cond, observed, call,
                 cbPromise, effects>>

\* the async guard's promise, resolved with the callback's promise, takes
\* over its settlement
AdoptSettlement ==
  /\ guardPromise.state = "pending"
  /\ guardPromise.follows
  /\ cbPromise.state \in {"fulfilled", "rejected"}
  /\ guardPromise' = [cbPromise EXCEPT !.follows = FALSE]
  /\ UNCHANGED <<globals, phase, currentEnv, flags, cond, observed, call,
                 cbPromise, effects>>

Next ==
  \/ ModuleInit
  \/ \E g \in Scenarios : SetGlobals(g)
  \/ CallGetCurrentEnvironment
  \/ \E gd \in SyncGuards, callback \in Callbacks : CallSyncGuard(gd, callback)
  \/ \E gd \in AsyncGuards, callback \in Callbacks : CallAsyncGuard(gd, callback)
  \/ \E p \in {Fulfilled(x) : x \in SettleValues}
            \cup {Rejected(JSError("callback failed"))} :
       SettleCallbackPromise(p)
  \/ AdoptSettlement

Spec == Init /\ [][Next]_vars

\* detection alone, over every combination of the ambient globals
NextDetect == ModuleInit \/ CallGetCurrentEnvironment

SpecDetect == InitDetect /\ [][NextDetect]_vars

\* The registry as first defined in environments.ts: order Browser, Bun,
\* Nodejs, Deno, detection by typeof and truthiness
environmentsLegacy == <<"Browser", "Bun", "Nodejs", "Deno">>

\* typeof (globalThis as any).Bun !== "undefined"
BunDetectLegacy(g) == TypeofDefined(g.Bun.st)

\* typeof (globalThis as any).Deno !== "undefined"
DenoDetectLegacy(g) == TypeofDefined(g.Deno.st)

\* typeof process !== "undefined" && !!process.versions.node && !Bun && !Deno;
\* process.versions.node is a TypeError when process has no versions
NodejsDetectLegacy(g) ==
  IF ~TypeofDefined(g.process.st) THEN Return(FALSE)
  ELSE IF ~g.process.hasVersions THEN Throw("TypeError")
  ELSE Return(/\ Truthy(g.process.node)
              /\ g.Bun.st # "object"
              /\ g.Deno.st # "object")

detectLegacy(name, g) ==
  CASE name = "Browser" -> Return(BrowserDetect(g))
    [] name = "Bun" -> Return(BunDetectLegacy(g))
    [] name = "Nodejs" -> NodejsDetectLegacy(g)
    [] name = "Deno" -> Return(DenoDetectLegacy(g))

\* process.version || "unknown"
NodejsGetVersionLegacy(g) == Return(OrElse(g.process.version, Str("unknown")))

getVersionLegacy(name, g) ==
  IF name = "Nodejs" THEN NodejsGetVersionLegacy(g) ELSE getVersion(name, g)

\* the snapshot built for the descriptor of the first registry that matched
SnapshotOfLegacy(name, g) ==
  LET v == getVersionLegacy(name, g)
  IN  IF v.kind = "throw" THEN v
      ELSE IF name = "Browser"
        THEN LET b == getBrowserName(g)
             IN  IF b.kind = "throw" THEN b
                 ELSE Return([name |-> name, version |-> v.value,
                              browserName |-> b.value])
      ELSE Return([name |-> name, version |-> v.value])

RECURSIVE DetectFromLegacy(_, _)
\* the loop of getCurrentEnvironment over the first registry
DetectFromLegacy(g, i) ==
  IF i > Len(environmentsLegacy)
    THEN Return([name |-> "Unknown", version |-> Str("unknown")])
  ELSE LET d == detectLegacy(environmentsLegacy[i], g)
       IN  IF d.kind = "throw" THEN d
           ELSE IF d.value THEN SnapshotOfLegacy(environmentsLegacy[i], g)
           ELSE DetectFromLegacy(g, i + 1)

getCurrentEnvironmentLegacy(g) == DetectFromLegacy(g, 1)

\* getCurrentEnvironment() run over each of the two registries in the same
\* ambient state
CallGetCurrentEnvironmentBoth ==
  /\ observed' = [called |-> TRUE, globals |-> globals,
                  outcome |-> getCurrentEnvironment(globals),
                  legacy |-> getCurrentEnvironmentLegacy(globals)]
  /\ UNCHANGED <<globals, phase, currentEnv, flags, cond, call, cbPromise,
                 guardPromise, effects>>

NextRegistry == ModuleInit \/ CallGetCurrentEnvironmentBoth

SpecRegistry == InitDetect /\ [][NextRegistry]_vars

\* asynchronous guard calls and the settlement of their promises; a promise
\* reaction is a microtask, which the event loop runs once the running job
\* has ended, so a settlement that can be taken over is taken over
NextSettle ==
  \/ ModuleInit
  \/ \E gd \in AsyncGuards, callback \in Callbacks : CallAsyncGuard(gd, callback)
  \/ \E p \in {Fulfilled(x) : x \in SettleValues}
            \cup {Rejected(JSError("callback failed"))} :
       SettleCallbackPromise(p)
  \/ AdoptSettlement

SpecSettle == Init /\ [][NextSettle]_vars /\ WF_vars(AdoptSettlement)

\* the pieces user-agent strings are made of: the five markers the parser
\* looks for, the separator, and a token free of markers
UAChunks == {"Firefox/", "Edg/", "Chrome/", "Safari/", "Version/", " ", "1.0"}

\* the user agents given to the parser: the test suite's, every string of
\* at most MaxUALen pieces, and a navigator without userAgent
UAStrings ==
  UASamples \cup {Undefined} \cup UNION {[1..k -> UAChunks] : k \in 0..MaxUALen}

\* the parser alone, over a navigator carrying each of the user agents
InitUA ==
  /\ globals \in {simulateBrowser(resetGlobalThis, u) : u \in UAStrings}
  /\ InitRest

\* a direct call of getBrowserVersion()
CallGetBrowserVersion ==
  /\ ~observed.called
  /\ observed' = [called |-> TRUE, globals |-> globals,
                  outcome |-> getBrowserVersion(globals)]
  /\ UNCHANGED <<globals, phase, currentEnv, flags, cond, call, cbPromise,
                 guardPromise, effects>>

NextUA == ModuleInit \/ CallGetBrowserVersion

SpecUA == InitUA /\ [][NextUA]_vars

----------------------------------------------------------------------------
(* Properties of detection, checked under SpecDetect *)

\* window and document both exist
BrowserSignal(g) == g.window = "object" /\ g.document = "object"

\* the property "Bun" / "Deno" exists on globalThis
BunPresent(g) == g.Bun.st \in {"undefined", "null", "object"}

DenoPresent(g) == g.Deno.st \in {"undefined", "null", "object"}

\* process.versions.node is set
NodeVersionSet(g) ==
  g.process.st = "object" /\ g.process.hasVersions /\ g.process.node = Str("16.0.0")

\* the first descriptor, in the order Browser, Bun, Deno, Nodejs, whose
\* detect() is true
FirstDetected(g) ==
  IF detect("Browser", g) THEN "Browser"
  ELSE IF detect("Bun", g) THEN "Bun"
  ELSE IF detect("Deno", g) THEN "Deno"
  ELSE IF detect("Nodejs", g) THEN "Nodejs"
  ELSE "Unknown"

ExactlyOne(bs) == Cardinality({i \in DOMAIN bs : bs[i]}) = 1

\* C2: once the module is initialized, exactly one of isBrowser, isNodejs,
\* isBun, isDeno, isUnknown is true, whatever the ambient globals were.
C2_ExactlyOneFlag ==
  phase = "loaded" =>
    ExactlyOne(<<flags.isBrowser, flags.isNodejs, flags.isBun, flags.isDeno,
                 flags.isUnknown>>)

\* initialized with the Deno global and process.versions.node both set
C2_Witness ==
  /\ phase = "loaded"
  /\ NodeVersionSet(globals)
  /\ DenoPresent(globals)
  /\ flags.isDeno
  /\ ~flags.isNodejs

\* C3: with the Bun global present and no browser signal,
\* getCurrentEnvironment() yields Bun, also when process.versions.node is set
\* and when the Deno global is present.
C3_BunBeforeDenoAndNodejs ==
  (observed.called /\ BunPresent(observed.globals)
     /\ ~BrowserSignal(observed.globals)) =>
    /\ observed.outcome.kind = "return"
    /\ observed.outcome.value.name = "Bun"

\* Bun, Deno and process.versions.node all present: Bun
C3_Witness ==
  /\ observed.called
  /\ ~BrowserSignal(observed.globals)
  /\ observed.globals.Bun.st = "object"
  /\ observed.globals.Deno.st = "object"
  /\ NodeVersionSet(observed.globals)
  /\ observed.outcome = Return([name |-> "Bun", version |-> Str("1.1.0")])

\* C4: with the Deno global present and process.versions.node set, no browser
\* signal and no Bun global, getCurrentEnvironment() yields Deno.
C4_DenoBeforeNodejs ==
  (observed.called /\ DenoPresent(observed.globals)
     /\ NodeVersionSet(observed.globals)
     /\ ~BrowserSignal(observed.globals)
     /\ ~BunPresent(observed.globals)) =>
    /\ observed.outcome.kind = "return"
    /\ observed.outcome.value.name = "Deno"

C4_Witness ==
  /\ observed.called
  /\ observed.globals.Deno.st = "object"
  /\ NodeVersionSet(observed.globals)
  /\ ~BrowserSignal(observed.globals)
  /\ ~BunPresent(observed.globals)
  /\ observed.outcome = Return([name |-> "Deno", version |-> Str("2.1.1")])

\* C5: getCurrentEnvironment() never throws: every call returns a snapshot.
C5_NeverThrows == observed.called => observed.outcome.kind = "return"

----------------------------------------------------------------------------
(* Properties of the guards, checked under Spec *)

SyncCall == call.guard \in SyncGuards

AsyncCall == call.guard \in AsyncGuards

\* the callback of the last call returns a Promise
ReturnsPromise(callback) ==
  callback.body \in {"asyncReturns", "asyncThrows", "pending"}

\* the callback of the last call returns a value that is not a Promise
ReturnsNonPromise(callback) ==
  callback.body \in {"returns", "returnsEnvName", "thenable"}

\* C6: a synchronous guard whose condition is false returns undefined and
\* does not invoke the callback: the count of callback runs stays as it was.
C6_SkippedGuardRunsNothing ==
  (SyncCall /\ ~cond[call.guard]) =>
    /\ call.outcome = Return(JSUndefined)
    /\ ~call.invoked
    /\ effects = call.effectsBefore

\* inBrowser under Nodejs, after an earlier callback has run
C6_Witness ==
  /\ call.guard = "inBrowser"
  /\ currentEnv.name = "Nodejs"
  /\ call.callback = [body |-> "returns", arg |-> JSString("x")]
  /\ call.outcome = Return(JSUndefined)
  /\ effects = 1

C8_SyncGuardReturnsValue ==
  (SyncCall /\ cond[call.guard] /\ ReturnsNonPromise(call.callback)) =>
    LET v == CASE call.callback.body = "returns" -> call.callback.arg
               [] call.callback.body = "returnsEnvName" -> JSString(currentEnv.name)
               [] call.callback.body = "thenable" -> JSThenable
    IN  call.outcome = Return(IF v \in {JSNull, JSUndefined} THEN JSUndefined ELSE v)

\* a falsy value that is not nullish comes back as it is
C8_Witness ==
  /\ SyncCall
  /\ cond[call.guard]
  /\ call.callback = [body |-> "returns", arg |-> JSZero]
  /\ call.outcome = Return(JSZero)

\* C9: an asynchronous guard whose condition is true and whose callback's
\* promise fulfils with V returns a promise that settles only by fulfilling
\* with V; one whose condition is false returns a promise fulfilled with
\* undefined and does not invoke the callback.
C9_AsyncPassThrough ==
  AsyncCall =>
    /\ call.outcome = Return(JSGuardPromise)
    /\ ~cond[call.guard] =>
         /\ ~call.invoked
         /\ effects = call.effectsBefore
         /\ guardPromise = Fulfilled(JSUndefined)
    /\ (cond[call.guard] /\ cbPromise.state = "fulfilled") =>
         guardPromise \in {Following, Fulfilled(cbPromise.value)}

\* the callback's promise fulfilled with "x" and the guard's promise after it
C9_Witness ==
  /\ AsyncCall
  /\ cond[call.guard]
  /\ call.callback.body = "pending"
  /\ cbPromise = Fulfilled(JSString("x"))
  /\ guardPromise = Fulfilled(JSString("x"))

----------------------------------------------------------------------------
(* Which guard runs in which environment *)

Runtimes == {"Browser", "Nodejs", "Bun", "Deno"}

PositiveGuards ==
  [Browser |-> {"inBrowser", "onBrowser", "inBrowserAsync", "onBrowserAsync"},
   Nodejs |-> {"inNodejs", "onNodejs", "inNodejsAsync", "onNodejsAsync"},
   Bun |-> {"inBun", "onBun", "inBunAsync", "onBunAsync"},
   Deno |-> {"inDeno", "onDeno", "inDenoAsync", "onDenoAsync"}]

NegativeGuards ==
  [Browser |-> {"onNotBrowser", "onNotBrowserAsync"},
   Nodejs |-> {"onNotNodejs", "onNotNodejsAsync"},
   Bun |-> {"onNotBun", "onNotBunAsync"},
   Deno |-> {"onNotDeno", "onNotDenoAsync"}]

UnknownGuards == {"onUnknown", "onUnknownAsync"}

\* C11: for every runtime X and detected environment E, the positive guard of
\* X invokes its callback iff E = X, the negative guard onNotX iff E is a
\* recognized runtime other than X, and onUnknown iff E = Unknown; sync and
\* async alike.
C11_GuardFiresIffEnvironmentMatches ==
  call.guard \in Guards =>
    /\ \A X \in Runtimes :
         /\ call.guard \in PositiveGuards[X] =>
              (call.invoked <=> currentEnv.name = X)
         /\ call.guard \in NegativeGuards[X] =>
              (call.invoked <=> currentEnv.name \in Runtimes \ {X})
    /\ call.guard \in UnknownGuards =>
         (call.invoked <=> currentEnv.name = "Unknown")

\* in the Unknown environment onNotNodejs skips although isNotNodejs is true
C11_Witness ==
  /\ currentEnv.name = "Unknown"
  /\ flags.isNotNodejs
  /\ call.guard = "onNotNodejs"
  /\ call.callback = [body |-> "returns", arg |-> JSString("x")]
  /\ ~call.invoked
  /\ call.outcome = Return(JSUndefined)

----------------------------------------------------------------------------
(* What is fixed at initialization and what is observed per call *)

\* C12: once the module is initialized, whatever the ambient globals become
\* and whatever guards are called, a guard called again makes the decision
\* it made before (the decision captured when the guard was built), and no
\* is*/isNot* flag changes value.
C12_GuardDecisionsAndFlagsFixed ==
  [][phase = "loaded" =>
       /\ phase' = "loaded"
       /\ flags' = flags
       /\ cond' = cond
       /\ (call.guard \in Guards /\ call'.guard = call.guard =>
             call'.invoked = call.invoked)
       /\ (call'.guard \in Guards => call'.invoked = cond[call'.guard])]_vars

\* initialized under Node.js, globals since changed to Bun's: inBun, called
\* after an earlier callback ran, still skips
C12_Witness ==
  /\ phase = "loaded"
  /\ currentEnv.name = "Nodejs"
  /\ globals = simulateBun(resetGlobalThis)
  /\ call.guard = "inBun"
  /\ call.effectsBefore = 1
  /\ ~call.invoked
  /\ ~flags.isBun

\* what a detection over the globals g is expected to yield: the snapshot of
\* the first matching runtime, or the exception its version lookup raises
ExpectedObservation(g) ==
  LET first == FirstDetected(g)
      v == getVersion(first, g)
  IN  IF first = "Unknown"
        THEN Return([name |-> "Unknown", version |-> Str("unknown")])
      ELSE IF v.kind = "throw" THEN v
      ELSE IF first = "Browser"
        THEN Return([name |-> "Browser", version |-> v.value,
                     browserName |-> getBrowserName(g).value])
      ELSE Return([name |-> first, version |-> v.value])

----------------------------------------------------------------------------
(* The user-agent parser, checked under SpecUA *)

----------------------------------------------------------------------------
(* Browser precedence and the versions of the other runtimes, checked under
   SpecDetect *)

\* C16: whenever window and document both exist, getCurrentEnvironment()
\* yields Browser, whatever Bun, Deno and process.versions.node are; when
\* only one of window and document exists, it does not yield Browser.
C16_WindowAndDocumentYieldBrowser ==
  observed.called =>
    LET g == observed.globals
        r == observed.outcome
    IN  /\ BrowserSignal(g) => r.kind = "return" /\ r.value.name = "Browser"
        /\ (g.window = "object") # (g.document = "object") =>
             ~(r.kind = "return" /\ r.value.name = "Browser")

\* the version field a runtime publishes about itself
OwnVersionField(name, g) ==
  CASE name = "Nodejs" -> g.process.version
    [] name = "Bun" -> IF g.Bun.st = "object" THEN g.Bun.version ELSE Undefined
    [] name = "Deno" -> IF g.Deno.st = "object" /\ g.Deno.hasVersion
                          THEN g.Deno.deno ELSE Undefined

\* C17: when the detected runtime is Nodejs, Bun or Deno, the snapshot's
\* version is process.version, Bun.version or Deno.version.deno
\* respectively, and "unknown" when that field is missing or empty; for
\* Nodejs it is not process.versions.node.
C17_OwnVersionOrUnknown ==
  observed.called =>
    LET g == observed.globals
        first == FirstDetected(g)
    IN  first \in {"Nodejs", "Bun", "Deno"} =>
          observed.outcome =
            Return([name |-> first,
                    version |-> IF OwnVersionField(first, g) \in {Undefined, EmptyStr}
                                  THEN Str("unknown")
                                ELSE OwnVersionField(first, g)])

\* Node.js with process.versions.node set and no process.version
C17_Witness ==
  /\ observed.called
  /\ NodeVersionSet(observed.globals)
  /\ observed.globals.process.version = Undefined
  /\ observed.outcome = Return([name |-> "Nodejs", version |-> Str("unknown")])

----------------------------------------------------------------------------
(* Misuse, ordering and settlement of guard calls, checked under Spec *)

\* C18 as stated: a synchronous guard called with a Promise-returning
\* callback throws on every call, and an asynchronous guard called with a
\* callback that does not return a Promise rejects on every call.
C18_MisuseReportedOnEveryCall ==
  /\ (SyncCall /\ ReturnsPromise(call.callback)) => call.outcome.kind = "throw"
  /\ (AsyncCall /\ ReturnsNonPromise(call.callback)) =>
       guardPromise.state = "rejected"

\* C18 amended: misuse is reported on every call of a guard whose condition
\* is true, however many callbacks have run before, and on no call of a guard
\* whose condition is false, which returns undefined (a promise fulfilled
\* with undefined) without running the callback.
C18_MisuseReportedIffConditionTrue ==
  /\ (SyncCall /\ ReturnsPromise(call.callback)) =>
       IF cond[call.guard]
         THEN call.outcome = Throw(JSError("callback must be a sync function"))
       ELSE call.outcome = Return(JSUndefined) /\ ~call.invoked
  /\ (AsyncCall /\ ReturnsNonPromise(call.callback)) =>
       IF cond[call.guard]
         THEN guardPromise = Rejected(JSError("callback must return a Promise"))
       ELSE guardPromise = Fulfilled(JSUndefined) /\ ~call.invoked

\* a synchronous guard given an async callback throws again after an earlier
\* callback has already run
C18_Witness ==
  /\ SyncCall
  /\ cond[call.guard]
  /\ call.callback = [body |-> "asyncReturns", arg |-> JSString("x")]
  /\ call.effectsBefore = 1
  /\ effects = 2
  /\ call.outcome = Throw(JSError("callback must be a sync function"))

\* C19: callbacks run in the order of the guard calls, one per call and
\* inside the call: a callback runs only in the step of a guard call, every
\* guard call whose condition is true (asynchronous ones included, and also
\* while the promise of the call before is pending) runs its callback before
\* it returns, and the callback reads the snapshot and nothing left by the
\* call before.
C19_CallbacksRunInCallOrder ==
  [][/\ effects' # effects =>
          /\ effects' = effects + 1
          /\ call'.invoked
          /\ call'.effectsBefore = effects
     /\ (call'.guard \in Guards /\ call' # call) =>
          /\ call'.effectsBefore = effects
          /\ call'.invoked = cond[call'.guard]
          /\ call'.invoked => effects' = effects + 1 /\ call'.passed = currentEnv
          /\ call'.unawaited = (guardPromise.state = "pending")]_vars

\* a second asynchronous guard called while the promise of the first is
\* pending: its callback is the second to run
C19_Witness ==
  /\ AsyncCall
  /\ call.unawaited
  /\ call.invoked
  /\ call.effectsBefore = 1
  /\ effects = 2
  /\ call.callback.body = "pending"
  /\ guardPromise = Following

\* the promise of the guard call that ran the k-th callback is what the
\* model is tracking
TrackedCall(k) == AsyncCall /\ call.invoked /\ call.effectsBefore = k

\* C20: the promise of an asynchronous guard whose condition is true and
\* whose callback returned a promise is pending as long as the callback's
\* promise is pending; once the callback's promise has settled, the guard's
\* promise settles too, and it is then settled as the callback's promise is:
\* fulfilled with the same value or rejected with the same reason.
C20_GuardPromiseMirrorsCallbackPromise ==
  /\ []((AsyncCall /\ cond[call.guard] /\ ReturnsPromise(call.callback)) =>
         /\ call.invoked
         /\ guardPromise.state \in {"pending", "fulfilled", "rejected"}
         /\ cbPromise.state = "pending" => guardPromise = Following
         /\ guardPromise.state = "fulfilled" =>
              cbPromise.state = "fulfilled" /\ guardPromise.value = cbPromise.value
         /\ guardPromise.state = "rejected" =>
              cbPromise.state = "rejected" /\ guardPromise.value = cbPromise.value)
  /\ \A k \in 0..MaxEffects :
       (TrackedCall(k) /\ guardPromise.follows /\ cbPromise.state # "pending")
       ~> (\/ ~TrackedCall(k)
           \/ guardPromise.state # "pending" /\ guardPromise = cbPromise)

\* the callback's promise, pending at first, rejected and the guard's
\* promise rejected with the same reason
C20_Witness ==
  /\ AsyncCall
  /\ cond[call.guard]
  /\ call.callback.body = "pending"
  /\ cbPromise = Rejected(JSError("callback failed"))
  /\ guardPromise = Rejected(JSError("callback failed"))

----------------------------------------------------------------------------
(* Aliases and the snapshot a callback sees, checked under Spec *)

DeprecatedAliases == {gd \in Guards : AliasOf(gd) # gd}

\* what the guard gd does with a callback in the current state of the module
GuardResult(gd, callback) ==
  IF gd \in SyncGuards
    THEN getFunctionExecuteInEnvironment(cond[gd], callback, currentEnv)
  ELSE getFunctionExecuteInEnvironmentAsync(cond[gd], callback, currentEnv)

\* C21: every deprecated alias on* behaves as its preferred counterpart in*:
\* a call of the alias runs the callback in the cases where the counterpart
\* does and yields the counterpart's result, error or promise; called right
\* after its counterpart with the same callback it repeats the counterpart's
\* decision and result.
C21_AliasesBehaveAsPreferred ==
  [][(call' # call /\ call'.guard \in DeprecatedAliases) =>
       LET r == GuardResult(AliasOf(call'.guard), call'.callback)
       IN  /\ call'.invoked = r.invoked
           /\ call'.outcome = r.outcome
           /\ cbPromise' = r.cbPromise
           /\ guardPromise' = r.guardPromise
           /\ (call.guard = AliasOf(call'.guard) /\ call.callback = call'.callback) =>
                /\ call'.invoked = call.invoked
                /\ call'.outcome = call.outcome]_vars

\* under Bun the alias onBun, given an async callback after inBun has run a
\* callback, throws as inBun does
C21_Witness ==
  /\ call.guard = "onBun"
  /\ currentEnv.name = "Bun"
  /\ call.callback = [body |-> "asyncReturns", arg |-> JSString("x")]
  /\ call.invoked
  /\ call.effectsBefore = 1
  /\ call.outcome = Throw(JSError("callback must be a sync function"))

\* C22: whenever a guard runs its callback, the snapshot the callback is
\* given fits the guard: name = X for inX / onX (sync or async), a recognized
\* runtime other than X for onNotX, and "Unknown" for onUnknown.
C22_CallbackSeesMatchingSnapshot ==
  (call.guard \in Guards /\ call.invoked) =>
    /\ \A X \in Runtimes :
         /\ call.guard \in PositiveGuards[X] => call.passed.name = X
         /\ call.guard \in NegativeGuards[X] =>
              call.passed.name \in Runtimes \ {X}
    /\ call.guard \in UnknownGuards => call.passed.name = "Unknown"
    /\ (call.guard \in SyncGuards /\ call.callback.body = "returnsEnvName") =>
         call.outcome = Return(JSString(call.passed.name))

\* under Deno the callback of onNotBunAsync is given the Deno snapshot
C22_Witness ==
  /\ call.guard = "onNotBunAsync"
  /\ call.invoked
  /\ call.passed = [name |-> "Deno", version |-> Str("2.1.1")]

----------------------------------------------------------------------------
(* Promise-like results, negation flags, the single run of the callback and
   null results, checked under Spec *)

\* the callback's result is a Promise or another object with a then method
ReturnsPromiseLike(callback) ==
  ReturnsPromise(callback) \/ callback.body = "thenable"

\* C23: a synchronous guard whose condition is true throws the
\* contract-violation error whenever the callback's result is promise-like,
\* a thenable that is not a Promise instance included, and never returns a
\* promise-like value to the caller.
C23_SyncGuardRejectsEveryThenable ==
  (SyncCall /\ cond[call.guard] /\ ReturnsPromiseLike(call.callback)) =>
    /\ call.outcome = Throw(JSError("callback must be a sync function"))
    /\ ~(call.outcome.kind = "return"
         /\ call.outcome.value \in {JSThenable, JSCallbackPromise})

AllNegativeGuards == UNION {NegativeGuards[X] : X \in Runtimes}

\* C24: each negation flag is the plain complement of its positive flag in
\* every environment; in the Unknown environment isNotBrowser, isNotNodejs,
\* isNotBun and isNotDeno are therefore all true, although no onNot* guard
\* runs its callback there.
C24_NegationFlagsArePlainComplements ==
  phase = "loaded" =>
    /\ flags.isNotBrowser = ~flags.isBrowser
    /\ flags.isNotNodejs = ~flags.isNodejs
    /\ flags.isNotBun = ~flags.isBun
    /\ flags.isNotDeno = ~flags.isDeno
    /\ flags.isNotUnknown = ~flags.isUnknown
    /\ flags.isUnknown = (currentEnv.name = "Unknown")
    /\ currentEnv.name = "Unknown" =>
         /\ flags.isNotBrowser /\ flags.isNotNodejs
         /\ flags.isNotBun /\ flags.isNotDeno
         /\ call.guard \in AllNegativeGuards => ~call.invoked

\* in the Unknown environment isNotBun is true and onNotBunAsync skips
C24_Witness ==
  /\ phase = "loaded"
  /\ currentEnv.name = "Unknown"
  /\ flags.isNotBun
  /\ ~flags.isNotUnknown
  /\ call.guard = "onNotBunAsync"
  /\ ~call.invoked
  /\ guardPromise = Fulfilled(JSUndefined)

\* C27: a guard call whose condition is true runs the callback exactly
\* once, and the check of the result comes after the run: when a guard
\* reports the contract violation the callback has run, its effect stays
\* and is not repeated, and the promise a synchronous guard refused goes on
\* to settle.
C27_CallbackRunsOnceBeforeCheck ==
  /\ [](call.guard \in Guards =>
          /\ cond[call.guard] =>
               call.invoked /\ effects = call.effectsBefore + 1
          /\ (SyncCall /\ call.outcome =
                 Throw(JSError("callback must be a sync function"))) =>
               /\ call.invoked
               /\ effects = call.effectsBefore + 1
               /\ cbPromise.state \in {"pending", "fulfilled", "rejected"}
          /\ (AsyncCall /\ guardPromise =
                 Rejected(JSError("callback must return a Promise"))) =>
               call.invoked /\ effects = call.effectsBefore + 1)
  /\ [][/\ call' = call => effects' = effects
        /\ effects' >= effects
        /\ (SyncCall /\ call' = call /\ cbPromise.state # "pending") =>
             cbPromise' = cbPromise]_vars

\* a synchronous guard has thrown for a callback whose promise was pending;
\* the callback ran once and its promise has since fulfilled
C27_Witness ==
  /\ SyncCall
  /\ call.callback.body = "pending"
  /\ call.outcome = Throw(JSError("callback must be a sync function"))
  /\ call.invoked
  /\ effects = call.effectsBefore + 1
  /\ cbPromise = Fulfilled(JSString("x"))

\* C28: an asynchronous guard whose condition is true hands on the
\* callback's promise as it is, so a callback promise fulfilled with null
\* gives a guard promise fulfilled with null, whereas a synchronous guard
\* turns a returned null into undefined.
C28_AsyncGuardKeepsNull ==
  /\ (AsyncCall /\ cond[call.guard] /\ ReturnsPromise(call.callback)) =>
       /\ guardPromise \in {Following, cbPromise}
       /\ cbPromise = Fulfilled(JSNull) =>
            guardPromise \in {Following, Fulfilled(JSNull)}
  /\ (SyncCall /\ cond[call.guard]
       /\ call.callback = [body |-> "returns", arg |-> JSNull]) =>
       call.outcome = Return(JSUndefined)

\* an async callback resolved with null: the guard's promise holds null
C28_Witness ==
  /\ AsyncCall
  /\ cond[call.guard]
  /\ call.callback = [body |-> "asyncReturns", arg |-> JSNull]
  /\ cbPromise = Fulfilled(JSNull)
  /\ guardPromise = Fulfilled(JSNull)

----------------------------------------------------------------------------
(* The version the parser extracts, checked under SpecUA *)

\* the marker that decides the browser, in the parser's order
FoundMarker(ua) ==
  IF Includes(ua, "Firefox/") THEN "Firefox/"
  ELSE IF Includes(ua, "Edg/") THEN "Edg/"
  ELSE IF Includes(ua, "Chrome/") THEN "Chrome/"
  ELSE IF Includes(ua, "Safari/") THEN "Safari/"
  ELSE "none"

\* the marker the version is read after
VersionMarker(ua) ==
  IF FoundMarker(ua) = "Safari/" THEN "Version/" ELSE FoundMarker(ua)

\* the text of ua that follows the first occurrence of marker, up to the
\* next space or the end
TextAfter(ua, marker) ==
  LET i == CHOOSE n \in DOMAIN ua :
             ua[n] = marker /\ \A m \in 1..(n - 1) : ua[m] # marker
      stops == {n \in (i + 1)..Len(ua) : ua[n] = " "}
      j == IF stops = {} THEN Len(ua) + 1
           ELSE CHOOSE n \in stops : \A m \in stops : n <= m
  IN  SubSeq(ua, i + 1, j - 1)

\* C25: for every user agent in which getBrowserVersion finds a marker, the
\* version returned is the text that follows the version marker up to the
\* next space, the version marker being "Firefox/", "Edg/" or "Chrome/" for
\* those browsers and "Version/" for a user agent classified as Safari.
C25_VersionFollowsMarker ==
  observed.called =>
    LET ua == observed.globals.navigator.userAgent
        r == observed.outcome
    IN  FoundMarker(ua) # "none" =>
          /\ r.kind = "return"
          /\ Includes(ua, VersionMarker(ua))
          /\ r.value.version = TextAfter(ua, VersionMarker(ua))

----------------------------------------------------------------------------
(* The shape of the snapshot and detection by presence, checked under
   SpecDetect *)

----------------------------------------------------------------------------
(* The two registries compared, checked under SpecRegistry *)

\* the runtime name a detection yields, if it yields one
NameOf(r) == IF r.kind = "return" THEN r.value.name ELSE "#throws"

\* C30: over the registry defined first (Browser, Bun, Nodejs, Deno; typeof
\* and truthiness) and over the one defined second (Browser, Bun, Deno,
\* Nodejs; property presence) getCurrentEnvironment() yields the same
\* runtime name in every ambient state.
C30_RegistriesAgree ==
  observed.called => NameOf(observed.outcome) = NameOf(observed.legacy)

====
